---- MODULE Spec2Model ----
(***************************************************************************)
(* Model of .github/scripts/update-changelog.py: the changelog rewriter.   *)
(*                                                                         *)
(* A Python string is modelled by the sequence of its lines, that is by    *)
(* what str.split('\n') returns: a sequence of length >= 1 (the empty      *)
(* string is the one-element sequence holding the empty line).  A line is  *)
(* a record: k = "T" is a plain text line whose text is txt, k = "H" is a  *)
(* line "## [label]" or "## [label] - date", k = "B" is a line that starts *)
(* with "## [" and has no closing bracket.  pos is a tag the code never    *)
(* reads; it is 0 on every line of a file and is used to follow lines      *)
(* through the three extraction passes.                                    *)
(***************************************************************************)
EXTENDS Naturals, Sequences, FiniteSets

VARIABLES exists, file, log, edited

vars == <<exists, file, log, edited>>

----------------------------------------------------------------------------
(* Lines and strings *)

Text(t) == [k |-> "T", label |-> <<>>, date |-> <<>>, txt |-> t, pos |-> 0]

\* "## [label]" when date = <<>>, "## [label] - d" when date = <<d>>.
Heading(l, d) == [k |-> "H", label |-> l, date |-> d, txt |-> "", pos |-> 0]

\* A line matched by '^## \[' and not by '^## \[(.*?)\]'.
Broken == [k |-> "B", label |-> <<>>, date |-> <<>>, txt |-> "## [x", pos |-> 0]

EmptyLine == Text("")

EmptyStr == <<EmptyLine>>

Unreleased == <<"Unreleased">>

\* Texts made of whitespace only.
BlankTxt == {"", " "}

\* str.lstrip / str.rstrip on the text of one line.
LstripTxt(t) ==
    CASE t = " a" -> "a"
      [] t = " "  -> ""
      [] OTHER    -> t

RstripTxt(t) ==
    CASE t = "--- " -> "---"
      [] t = " "    -> ""
      [] OTHER      -> t

\* bool(line.strip()) for one line.
NonBlankLine(l) == ~(l.k = "T" /\ l.txt \in BlankTxt)

\* bool(s.strip()) for a string.
NonBlankStr(s) == \E i \in DOMAIN s : NonBlankLine(s[i])

\* '\n'.join(list) for a list of lines.
Join(ls) == IF ls = <<>> THEN EmptyStr ELSE ls

RECURSIVE DropLeadingBlank(_)
DropLeadingBlank(s) ==
    IF s = <<>> THEN <<>>
    ELSE IF NonBlankLine(Head(s)) THEN s
    ELSE DropLeadingBlank(Tail(s))

RECURSIVE DropTrailingBlank(_)
DropTrailingBlank(s) ==
    IF s = <<>> THEN <<>>
    ELSE IF NonBlankLine(s[Len(s)]) THEN s
    ELSE DropTrailingBlank(SubSeq(s, 1, Len(s) - 1))

\* str.rstrip(): trailing blank lines go, and so does the trailing
\* whitespace of the last line left.
Rstrip(s) ==
    LET r == DropTrailingBlank(s) IN
    IF r = <<>> THEN EmptyStr
    ELSE [r EXCEPT ![Len(r)].txt = RstripTxt(@)]

\* str.lstrip(): leading blank lines go, and so does the leading
\* whitespace of the first line left.
Lstrip(s) ==
    LET r == DropLeadingBlank(s) IN
    IF r = <<>> THEN EmptyStr
    ELSE [r EXCEPT ![1].txt = LstripTxt(@)]

\* str.strip()
Strip(s) == Rstrip(Lstrip(s))

----------------------------------------------------------------------------
(* The regular expressions *)

\* re.match(r'^## \[(.*?)\](?:\s*-\s*(.*))?', line) matches.
VersionMatch(l) == l.k = "H"

\* version_match.group(2), "" standing for None and for the empty match:
\* the \s* before the group takes the leading whitespace of the date.
DateGroup(l) == IF l.date = <<>> THEN "" ELSE LstripTxt(l.date[1])

\* re.match(r'^## \[', line) matches.
HeaderEnd(l) == l.k \in {"H", "B"}

\* re.match(r'^---\s*$', line) matches: exactly three hyphens, then
\* whitespace only.
RuleMatch(l) == l.k = "T" /\ l.txt \in {"---", "--- "}

----------------------------------------------------------------------------
(* The sections dictionary: a Python dict, which keeps the order in which  *)
(* its keys were first inserted.                                           *)

\* f"{label}_date"
DateKey(l) == Append(l, "_date")

\* key.endswith('_date')
EndsWithDate(l) == l # <<>> /\ l[Len(l)] = "_date"

Has(d, key) == \E i \in DOMAIN d : d[i].key = key

Get(d, key) == d[CHOOSE i \in DOMAIN d : d[i].key = key].val

\* d[key] = val
Put(d, key, val) ==
    IF Has(d, key)
    THEN [i \in DOMAIN d |->
            IF d[i].key = key THEN [key |-> key, val |-> val] ELSE d[i]]
    ELSE Append(d, [key |-> key, val |-> val])

----------------------------------------------------------------------------
(* parse_changelog *)

\* The loop of parse_changelog.  cur is <<>> while current_section is None
\* and <<label>> afterwards; content is current_content.
RECURSIVE ParseLoop(_, _, _, _)
ParseLoop(lines, sections, cur, content) ==
    IF lines = <<>>
    THEN IF cur # <<>> THEN Put(sections, cur[1], Join(content)) ELSE sections
    ELSE LET line == Head(lines) IN
         IF VersionMatch(line)
         THEN LET saved == IF cur # <<>>
                           THEN Put(sections, cur[1], Join(content))
                           ELSE sections
                  dated == IF DateGroup(line) # ""
                           THEN Put(saved, DateKey(line.label),
                                    <<Text(DateGroup(line))>>)
                           ELSE saved
              IN  ParseLoop(Tail(lines), dated, <<line.label>>, <<>>)
         ELSE ParseLoop(Tail(lines), sections, cur,
                        IF cur # <<>> THEN Append(content, line) ELSE content)

parse_changelog(content) == ParseLoop(content, <<>>, <<>>, <<>>)

----------------------------------------------------------------------------
(* extract_header_content *)

\* The loop of lines 54-57: the lines before the first line that opens with "## [".
RECURSIVE header_lines(_)
header_lines(lines) ==
    IF lines = <<>> \/ HeaderEnd(Head(lines)) THEN <<>>
    ELSE <<Head(lines)>> \o header_lines(Tail(lines))

extract_header_content(content) == Rstrip(Join(header_lines(content)))

----------------------------------------------------------------------------
(* extract_footer_content *)

\* A variant that starts the footer after the rule: lines[i + 1:].
RECURSIVE footer_lines_after_rule(_)
footer_lines_after_rule(lines) ==
    IF lines = <<>> THEN <<>>
    ELSE IF RuleMatch(Head(lines)) THEN Tail(lines)
    ELSE footer_lines_after_rule(Tail(lines))

\* The loop of lines 69-73: lines[i:] for the first i whose line is a rule, else [].
RECURSIVE footer_lines(_)
footer_lines(lines) ==
    IF lines = <<>> THEN <<>>
    ELSE IF RuleMatch(Head(lines)) THEN lines
    ELSE footer_lines(Tail(lines))

extract_footer_content(content) == Join(footer_lines(content))

----------------------------------------------------------------------------
(* create_new_changelog *)

\* A variant without the three subsections.
ScaffoldBare == << Heading(Unreleased, <<>>), EmptyLine >>

\* The fresh Unreleased section, lines 87-94.
Scaffold ==
    << Heading(Unreleased, <<>>), EmptyLine,
       Text("### Added"), EmptyLine,
       Text("### Changed"), EmptyLine,
       Text("### Fixed"), EmptyLine >>

\* A variant that keeps the blank lines.
cleaned_lines_keeping_blank(s) == s

\* Lines 102-105 and 127-130: the lines of a body that are emitted.
cleaned_lines(s) == SelectSeq(s, NonBlankLine)

\* f"## [{key}] - {value}": a value of several lines puts its first line
\* in the heading and the others after it.
DatedHeading(key, value) == <<Heading(key, <<value[1].txt>>)>> \o Tail(value)

\* Lines 96-109.
NewVersionSection(unreleased_content, new_version, release_date) ==
    IF NonBlankStr(unreleased_content)
    THEN DatedHeading(new_version, release_date) \o <<EmptyLine>>
         \o (IF cleaned_lines(unreleased_content) # <<>>
             THEN cleaned_lines(unreleased_content) \o <<EmptyLine>>
             ELSE <<>>)
    ELSE <<>>

\* The body of the loop of lines 112-131 for one key.
EmitSection(existing_sections, key) ==
    IF key # Unreleased /\ ~EndsWithDate(key)
    THEN (IF Has(existing_sections, DateKey(key))
          THEN DatedHeading(key, Get(existing_sections, DateKey(key)))
          ELSE <<Heading(key, <<>>)>>)
         \o <<EmptyLine>>
         \o cleaned_lines(Get(existing_sections, key))
         \o <<EmptyLine>>
    ELSE <<>>

\* The loop of lines 112-131 over the keys from the i-th on.
RECURSIVE ExistingSections(_, _)
ExistingSections(existing_sections, i) ==
    IF i > Len(existing_sections) THEN <<>>
    ELSE EmitSection(existing_sections, existing_sections[i].key)
         \o ExistingSections(existing_sections, i + 1)

create_new_changelog(header, unreleased_content, new_version, release_date, existing_sections, footer) ==
    header \o <<EmptyLine>>
    \o Scaffold
    \o NewVersionSection(unreleased_content, new_version, release_date)
    \o ExistingSections(existing_sections, 1)
    \o (IF NonBlankStr(footer) THEN footer ELSE <<>>)

----------------------------------------------------------------------------
(* update_changelog_file *)

\* A variant that tests the body without stripping it.
RejectedUnstripped(current_content) ==
    LET sections == parse_changelog(current_content) IN
    IF ~Has(sections, Unreleased) THEN "nounreleased"
    ELSE IF Get(sections, Unreleased) = EmptyStr THEN "empty"
    ELSE ""

\* Lines 154-165: the reason of the early return, "" when there is none.
Rejected(current_content) ==
    LET sections == parse_changelog(current_content) IN
    IF ~Has(sections, Unreleased) THEN "nounreleased"
    ELSE IF ~NonBlankStr(Strip(Get(sections, Unreleased))) THEN "empty"
    ELSE ""

\* Lines 155-179 when no early return is taken: new_content.
new_content(current_content, version, date) ==
    LET sections == parse_changelog(current_content) IN
    create_new_changelog(extract_header_content(current_content),
                       Strip(Get(sections, Unreleased)),
                       version, date, sections,
                       extract_footer_content(current_content))

\* What a failed write leaves in the file: open(path, 'w') has truncated
\* it, and f.write() has put some of the text there, at most MaxPartial
\* lines of it and never all of it.
MaxPartial == 2

PartialWrites(text) ==
    { IF n = 0 THEN EmptyStr ELSE SubSeq(text, 1, n) :
        n \in 0 .. (IF Len(text) - 1 < MaxPartial
                    THEN Len(text) - 1 ELSE MaxPartial) }

\* What the file system does to one call: "ok", "readerr" (open or read of
\* line 145-146 raises), "openerr" (open of line 183 raises), "writeerr"
\* (f.write of line 184 raises).
IOOutcomes == {"ok", "readerr", "openerr", "writeerr"}

MaxRuns == 2

\* A variant that opens the file for writing before it looks at the
\* sections: a rejected document is truncated.
update_changelog_file_opening_first(present, current_content, version, date, io) ==
    IF ~present
    THEN [res |-> "notfound", outs |-> {current_content}]
    ELSE IF io = "readerr"
    THEN [res |-> "readerr", outs |-> {current_content}]
    ELSE IF Rejected(current_content) # ""
    THEN [res |-> Rejected(current_content), outs |-> {EmptyStr}]
    ELSE IF io = "ok"
    THEN [res |-> "ok", outs |-> {new_content(current_content, version, date)}]
    ELSE [res |-> "writeerr", outs |-> {EmptyStr}]

\* update_changelog_file, lines 143-189: the reason it reports ("ok" when
\* it returns True) and what the file may hold when it returns.
update_changelog_file(present, current_content, version, date, io) ==
    IF ~present
    THEN [res |-> "notfound", outs |-> {current_content}]
    ELSE IF io = "readerr"
    THEN [res |-> "readerr", outs |-> {current_content}]
    ELSE IF Rejected(current_content) # ""
    THEN [res |-> Rejected(current_content), outs |-> {current_content}]
    ELSE IF io = "ok"
    THEN [res |-> "ok", outs |-> {new_content(current_content, version, date)}]
    ELSE IF io = "openerr"
    THEN [res |-> "writeerr", outs |-> {current_content}]
    ELSE [res |-> "writeerr",
          outs |-> PartialWrites(new_content(current_content, version, date))]

\* One call of update_changelog_file(changelog_path, version, date).  A
\* failed call ends the process with status 1 (main, lines 215-216): no
\* call follows it.
Run(version, date, io) ==
    /\ Len(log) < MaxRuns
    /\ IF log = <<>> THEN TRUE ELSE log[Len(log)].res = "ok"
    /\ file' \in update_changelog_file(exists, file, version, date, io).outs
    /\ log' = Append(log, [in |-> file, version |-> version, date |-> date,
                           io |-> io, edited |-> edited,
                           res |-> update_changelog_file(exists, file, version, date, io).res])
    /\ edited' = FALSE
    /\ UNCHANGED exists

----------------------------------------------------------------------------
(* The maintainer's edit between two releases: one entry typed into the    *)
(* Unreleased section of the file, right under its heading or under the    *)
(* "### Added" line of the scaffold.                                       *)

IsUnreleasedHeading(l) == l.k = "H" /\ l.label = Unreleased

FirstUnreleased(s) ==
    CHOOSE i \in DOMAIN s :
        /\ IsUnreleasedHeading(s[i])
        /\ \A j \in 1 .. (i - 1) : ~IsUnreleasedHeading(s[j])

InsertAfter(s, at, l) == SubSeq(s, 1, at) \o <<l>> \o SubSeq(s, at + 1, Len(s))

Entries == {Text("b")}

AddEntry(e, off) ==
    /\ exists
    /\ ~edited
    /\ Len(log) < MaxRuns
    /\ IF log = <<>> THEN FALSE ELSE log[Len(log)].res = "ok"
    /\ \E i \in DOMAIN file : IsUnreleasedHeading(file[i])
    /\ FirstUnreleased(file) + off <= Len(file)
    /\ file' = InsertAfter(file, FirstUnreleased(file) + off, e)
    /\ edited' = TRUE
    /\ UNCHANGED <<exists, log>>

----------------------------------------------------------------------------
(* Inputs *)

\* The longest changelog a single call is given.
MaxLines == 4

\* The longest changelog a series of releases starts from.
MaxSeed == 3

V1 == <<"v1">>
V2 == <<"v2">>
V3 == <<"v3">>
V4 == <<"v4">>

Docs(alphabet, n) == UNION {[1 .. m -> alphabet] : m \in 1 .. n}

\* --date: main() lets only YYYY-MM-DD through.
Dates == {<<Text("2024-01-15")>>}

\* Lines that differ in their whitespace and their hyphens.
TextAlphabet ==
    {Text("a"), Text(" a"), Text(""), Text(" "), Text("---"), Text("--- "),
     Text("----"), Heading(Unreleased, <<>>), Heading(V1, <<"2024-01-01">>)}

\* Lines that differ in their headings.
SectionAlphabet ==
    {Text("a"), Text(""), Text("---"), Broken,
     Heading(Unreleased, <<>>), Heading(V1, <<"2024-01-01">>), Heading(V1, <<>>),
     Heading(V2, <<>>), Heading(DateKey(V1), <<>>)}

IOAlphabet ==
    {Text("a"), Text(""), Text("---"), Heading(Unreleased, <<>>),
     Heading(V1, <<"2024-01-01">>)}

SeedAlphabet ==
    {Text("a"), Text(""), Text("---"), Heading(Unreleased, <<>>),
     Heading(V1, <<"2024-01-01">>), Heading(DateKey(V3), <<>>)}

InitWith(docs) ==
    /\ exists = TRUE
    /\ file \in docs
    /\ log = <<>>
    /\ edited = FALSE

\* One call on a changelog of lines of text.
Init == InitWith(Docs(TextAlphabet, MaxLines))

Next ==
    \E version \in {V3, V1}, date \in Dates :
        log = <<>> /\ Run(version, date, "ok")

Spec == Init /\ [][Next]_vars

\* One call on a changelog of sections.
InitSections == InitWith(Docs(SectionAlphabet, MaxLines))

NextSections ==
    \E version \in {V3, V1, DateKey(V3)}, date \in Dates :
        log = <<>> /\ Run(version, date, "ok")

SpecSections == InitSections /\ [][NextSections]_vars

\* One call under every behaviour of the file system, the missing file
\* included.
InitIO ==
    /\ exists \in BOOLEAN
    /\ file \in (IF exists THEN Docs(IOAlphabet, MaxLines) ELSE {EmptyStr})
    /\ log = <<>>
    /\ edited = FALSE

NextIO ==
    \E version \in {V3}, date \in Dates, io \in IOOutcomes :
        log = <<>> /\ Run(version, date, io)

SpecIO == InitIO /\ [][NextIO]_vars

\* A series of releases of one changelog, with or without an entry typed
\* between two of them.
InitRuns == InitWith(Docs(SeedAlphabet, MaxSeed))

NextRuns ==
    \/ \E version \in {V3, V4, Unreleased}, date \in Dates :
          Run(version, date, "ok")
    \/ \E e \in Entries, off \in {0, 2} : AddEntry(e, off)

SpecRuns == InitRuns /\ [][NextRuns]_vars

----------------------------------------------------------------------------
(* The vocabulary of the properties: a document read as the data model     *)
(* describes it, without the code's passes.                                *)

Last == log[Len(log)]

Called == log # <<>>

Succeeded == Called /\ Last.res = "ok"

IsBlank(l) == l.k = "T" /\ l.txt \in {"", " "}

NonBlanks(s) == SelectSeq(s, LAMBDA l : ~IsBlank(l))

IsOpening(l) == l.k = "H"

Openings(doc) == {i \in DOMAIN doc : IsOpening(doc[i])}

\* The lines from the one after the opening line i to the next opening
\* line or the end.
BodyAt(doc, i) ==
    LET later == {j \in Openings(doc) : j > i}
        stop  == IF later = {} THEN Len(doc) + 1
                 ELSE CHOOSE j \in later : \A m \in later : j <= m
    IN  SubSeq(doc, i + 1, stop - 1)

UnreleasedAt(doc) == {i \in Openings(doc) : doc[i].label = Unreleased}

\* The Unreleased section of a document: the last one that opens.
TheUnreleased(doc) ==
    CHOOSE i \in UnreleasedAt(doc) : \A j \in UnreleasedAt(doc) : j <= i

UnreleasedBody(doc) == BodyAt(doc, TheUnreleased(doc))

HasUnreleasedBody(doc) ==
    UnreleasedAt(doc) # {} /\ NonBlanks(UnreleasedBody(doc)) # <<>>

\* "## [<version>] - <date>"
VersionHeading(version, date) == Heading(version, <<date[1].txt>>)

\* s occurs in doc from index i on.
OccursAt(doc, i, s) ==
    i + Len(s) - 1 <= Len(doc) /\ SubSeq(doc, i, i + Len(s) - 1) = s

IsSuffix(s, t) == Len(s) <= Len(t) /\ SubSeq(t, Len(t) - Len(s) + 1, Len(t)) = s

\* The lines of doc from the first one whose text is in texts on.
FromFirst(doc, texts) ==
    LET at == {i \in DOMAIN doc : doc[i].k = "T" /\ doc[i].txt \in texts}
    IN  SubSeq(doc, CHOOSE i \in at : \A j \in at : i <= j, Len(doc))

HasLine(doc, texts) == \E i \in DOMAIN doc : doc[i].k = "T" /\ doc[i].txt \in texts

\* Three or more hyphens alone on a line.
Hyphens == {"---", "--- ", "----"}

\* Three hyphens alone on a line.
ThreeHyphens == {"---", "--- "}

\* The sections of a document in the order in which they open: label,
\* date of the heading (<<>> when it has none), non-blank lines of the body.
RECURSIVE SectionsFrom(_, _)
SectionsFrom(doc, i) ==
    IF i > Len(doc) THEN <<>>
    ELSE IF IsOpening(doc[i])
    THEN <<[label |-> doc[i].label, date |-> doc[i].date,
            body |-> NonBlanks(BodyAt(doc, i))]>> \o SectionsFrom(doc, i + 1)
    ELSE SectionsFrom(doc, i + 1)

SectionList(doc) == SectionsFrom(doc, 1)

Released(doc) == SelectSeq(SectionList(doc), LAMBDA x : x.label # Unreleased)

IsPrefix(s, t) == Len(s) <= Len(t) /\ SubSeq(t, 1, Len(s)) = s

NoDateLabel(doc) == \A i \in Openings(doc) : ~EndsWithDate(doc[i].label)

DistinctLabels(doc) ==
    \A i, j \in Openings(doc) : doc[i].label = doc[j].label => i = j

OpeningsOf(doc, label) == {i \in Openings(doc) : doc[i].label = label}

LastOf(doc, label) ==
    CHOOSE i \in OpeningsOf(doc, label) : \A j \in OpeningsOf(doc, label) : j <= i

----------------------------------------------------------------------------
(* C1 *)

Trimmed(s) ==
    [i \in DOMAIN s |->
        [s[i] EXCEPT !.txt =
            IF s[i].k # "T" THEN @
            ELSE LET l == IF i = 1 /\ @ = " a" THEN "a" ELSE @
                 IN  IF i = Len(s) /\ l = "--- " THEN "---" ELSE l]]

----------------------------------------------------------------------------
(* C2 *)

\* C2: a call on a document that has no Unreleased section, or whose
\* Unreleased section has a blank body, fails with the matching reason and
\* leaves the file as it was.
C2_Rejected ==
    (Called /\ ~edited /\ ~HasUnreleasedBody(Last.in)) =>
        /\ Last.res = (IF UnreleasedAt(Last.in) = {} THEN "nounreleased"
                       ELSE "empty")
        /\ file = Last.in

\* A rejected call on an Unreleased section of whitespace.
C2_Witness ==
    /\ Called /\ ~edited
    /\ UnreleasedAt(Last.in) # {}
    /\ \E i \in DOMAIN UnreleasedBody(Last.in) :
          UnreleasedBody(Last.in)[i] = Text(" ")
    /\ Last.res = "empty"

----------------------------------------------------------------------------
(* C3 *)

\* Section y of the output carries section x of the input: its label, its
\* date if it has one, its non-blank lines first.
Carries(x, y) ==
    /\ y.label = x.label
    /\ x.date # <<>> => y.date = x.date
    /\ IsPrefix(x.body, y.body)

\* The sections xs are carried, in their order, by sections among ys.
RECURSIVE Embeds(_, _)
Embeds(xs, ys) ==
    IF xs = <<>> THEN TRUE
    ELSE IF ys = <<>> THEN FALSE
    ELSE IF Carries(Head(xs), Head(ys)) THEN Embeds(Tail(xs), Tail(ys))
    ELSE Embeds(xs, Tail(ys))

\* C3 as stated, for a document whose section labels are distinct: after a
\* successful call every section of the input other than Unreleased is in
\* the output, after the new version's section (the second of the output),
\* in the input's order, whatever its label.
C3_AsStated ==
    (Succeeded /\ ~edited /\ DistinctLabels(Last.in)) =>
        /\ Len(SectionList(file)) >= 2
        /\ Embeds(Released(Last.in),
                  SubSeq(SectionList(file), 3, Len(SectionList(file))))

----------------------------------------------------------------------------
(* C4 *)

\* C4 as stated: after a successful call on a document that has a line of
\* three or more hyphens, the output ends with the lines of the input from
\* the first such line on.
C4_AsStated ==
    (Succeeded /\ ~edited /\ HasLine(Last.in, Hyphens)) =>
        IsSuffix(FromFirst(Last.in, Hyphens), file)

\* C4 (amended): after a successful call on a document that has a line of
\* exactly three hyphens (whitespace may follow them), the output ends
\* with the lines of the input from the first such line on.
C4_Footer ==
    (Succeeded /\ ~edited /\ HasLine(Last.in, ThreeHyphens)) =>
        IsSuffix(FromFirst(Last.in, ThreeHyphens), file)

\* A successful call on a document whose footer has lines after the rule,
\* the rule being in the output before its last line.
C4_Witness ==
    /\ Succeeded /\ ~edited
    /\ HasLine(Last.in, ThreeHyphens)
    /\ Len(FromFirst(Last.in, ThreeHyphens)) >= 2
    /\ \E i \in DOMAIN file : file[i] = Text("---") /\ i < Len(file)

----------------------------------------------------------------------------
(* C5 *)

\* C5 as stated: a call that fails leaves the file as it was, and a call
\* that succeeds leaves the rewritten text in it.
C5_AsStated ==
    (Called /\ ~edited) =>
        IF Last.res = "ok"
        THEN file = new_content(Last.in, Last.version, Last.date)
        ELSE file = Last.in

\* C5 (amended): a call that fails for a missing file, a read error, a
\* missing or a blank Unreleased section leaves the file as it was; a call
\* that fails for a write error leaves in it what it held or the first
\* lines, possibly none, of the rewritten text; a call that succeeds
\* leaves the rewritten text in it.
C5_FileAfter ==
    (Called /\ ~edited) =>
        CASE Last.res = "ok" ->
                file = new_content(Last.in, Last.version, Last.date)
          [] Last.res = "writeerr" ->
                \/ file = Last.in
                \/ file = EmptyStr
                \/ IsPrefix(file, new_content(Last.in, Last.version, Last.date))
          [] OTHER ->
                /\ Last.res \in {"notfound", "readerr", "nounreleased", "empty"}
                /\ file = Last.in

\* A call that failed on its write and left some lines of the rewritten
\* text in the file.
C5_Witness ==
    /\ Called /\ ~edited
    /\ Last.res = "writeerr"
    /\ file # Last.in
    /\ file # EmptyStr

----------------------------------------------------------------------------
(* C6 *)

\* What a parse holds for its labels, in the order of its keys.
RECURSIVE ParsedFrom(_, _)
ParsedFrom(sections, i) ==
    IF i > Len(sections) THEN <<>>
    ELSE IF EndsWithDate(sections[i].key) THEN ParsedFrom(sections, i + 1)
    ELSE <<[label |-> sections[i].key,
            date  |-> IF Has(sections, DateKey(sections[i].key))
                      THEN Get(sections, DateKey(sections[i].key)) ELSE <<>>,
            body  |-> NonBlanks(sections[i].val)]>>
         \o ParsedFrom(sections, i + 1)

Parsed(doc) == ParsedFrom(parse_changelog(doc), 1)

WithEntry(doc, e) == InsertAfter(doc, FirstUnreleased(doc), e)

\* C6 as stated, for a version label that is new to the document and a
\* document that has no label with "_date" at its end: after a successful
\* call, the output with an entry typed under its Unreleased heading
\* parses into the header of the input, the labels Unreleased, the new
\* version and the input's others in their order with their dates and
\* non-blank lines, and the footer of the input.
C6_AsStated ==
    (Succeeded /\ ~edited /\ Last.version = V3 /\ NoDateLabel(Last.in)) =>
        \A e \in Entries :
            LET again  == WithEntry(file, e)
                others == SelectSeq(Parsed(Last.in), LAMBDA x : x.label # Unreleased)
            IN  /\ extract_header_content(again) = extract_header_content(Last.in)
                /\ Len(Parsed(again)) = 2 + Len(others)
                /\ Parsed(again)[1].label = Unreleased
                /\ Parsed(again)[2].label = Last.version
                /\ SubSeq(Parsed(again), 3, Len(Parsed(again))) = others
                /\ extract_footer_content(again) = extract_footer_content(Last.in)

----------------------------------------------------------------------------
(* C7 *)

\* The document with every line tagged by its index.
Tagged(doc) == [i \in DOMAIN doc |-> [doc[i] EXCEPT !.pos = i]]

Occurrences(s, i) == Cardinality({j \in DOMAIN s : s[j].pos = i})

RECURSIVE InBodies(_, _, _)
InBodies(sections, n, i) ==
    IF n > Len(sections) THEN 0
    ELSE Occurrences(sections[n].val, i) + InBodies(sections, n + 1, i)

\* In how many of header_lines, the bodies of the parse and footer_lines
\* the i-th line of the document is.
Assigned(doc, i) ==
    Occurrences(header_lines(Tagged(doc)), i)
    + InBodies(parse_changelog(Tagged(doc)), 1, i)
    + Occurrences(footer_lines(Tagged(doc)), i)

\* C7 as stated, for the documents with distinct section labels a call
\* succeeds on: every line that does not open a section is in exactly one
\* of the header, the body of one section and the footer.
C7_AsStated ==
    (Succeeded /\ ~edited /\ DistinctLabels(Last.in)) =>
        \A i \in DOMAIN Last.in :
            ~IsOpening(Last.in[i]) => Assigned(Last.in, i) = 1

----------------------------------------------------------------------------
(* C8 *)

\* C8 as stated, for a document without a rule and a label that is not
\* Unreleased, not the new version's and has no "_date" at its end: when
\* the label opens several sections of the input, the parse holds for it
\* the body and the date of the last of them (no date when that heading
\* has none), and after a successful call the output has one heading for
\* it, the last one's.
C8_AsStated ==
    (Succeeded /\ ~edited /\ ~HasLine(Last.in, ThreeHyphens)) =>
        \A label \in {Last.in[i].label : i \in Openings(Last.in)} :
            ( /\ Cardinality(OpeningsOf(Last.in, label)) > 1
              /\ label # Unreleased /\ label # Last.version
              /\ ~EndsWithDate(label) ) =>
            LET last     == Last.in[LastOf(Last.in, label)]
                sections == parse_changelog(Last.in)
            IN  /\ Get(sections, label) = Join(BodyAt(Last.in, LastOf(Last.in, label)))
                /\ IF last.date = <<>>
                   THEN ~Has(sections, DateKey(label))
                   ELSE /\ Has(sections, DateKey(label))
                        /\ Get(sections, DateKey(label)) = <<Text(last.date[1])>>
                /\ Cardinality(OpeningsOf(file, label)) = 1
                /\ \A i \in OpeningsOf(file, label) : file[i] = last

----------------------------------------------------------------------------
(* C9 *)

Subsections == <<Text("### Added"), Text("### Changed"), Text("### Fixed")>>

\* The call before the last one succeeded on a document without a line of
\* hyphens, and nothing was typed into its output before the last call.
Rerun ==
    /\ Len(log) >= 2 /\ ~edited
    /\ log[Len(log) - 1].res = "ok"
    /\ ~HasLine(log[Len(log) - 1].in, Hyphens)
    /\ ~Last.edited

\* The last call succeeded and the section of its version is the three
\* subsection lines.
ReleasedScaffold ==
    /\ Last.res = "ok"
    /\ Len(SectionList(file)) >= 2
    /\ SectionList(file)[2] = [label |-> Last.version,
                               date  |-> <<Last.date[1].txt>>,
                               body  |-> Subsections]

----------------------------------------------------------------------------
(* C10 *)

RECURSIVE IsSubseq(_, _)
IsSubseq(s, t) ==
    IF s = <<>> THEN TRUE
    ELSE IF t = <<>> THEN FALSE
    ELSE IF Head(s) = Head(t) THEN IsSubseq(Tail(s), Tail(t))
    ELSE IsSubseq(s, Tail(t))

\* Every call so far succeeded with a version label that no other call
\* had, that was not in its document, that is not "Unreleased" and does
\* not end in "_date".
FreshVersions ==
    \A j \in DOMAIN log :
        /\ log[j].res = "ok"
        /\ log[j].version # Unreleased
        /\ ~EndsWithDate(log[j].version)
        /\ OpeningsOf(log[j].in, log[j].version) = {}
        /\ \A m \in DOMAIN log : log[m].version = log[j].version => m = j

\* The lines call j released: the non-blank lines of the Unreleased body
\* it was given.
ReleasedBy(j) == Trimmed(NonBlanks(UnreleasedBody(log[j].in)))

\* C10 as stated: in a series of successful calls with fresh version
\* labels, the file holds at every moment, for every call made, a section
\* with the call's version and date whose lines include, in their order,
\* the lines that call released.
C10_AsStated ==
    FreshVersions =>
        \A j \in DOMAIN log :
            \E n \in DOMAIN SectionList(file) :
                /\ SectionList(file)[n].label = log[j].version
                /\ SectionList(file)[n].date = <<log[j].date[1].txt>>
                /\ IsSubseq(ReleasedBy(j), SectionList(file)[n].body)

====
